---------------------------- MODULE Spec2Model ----------------------------
(***************************************************************************)
(* A model of the network client of agama's web front end                  *)
(* (web/src/client/network/index.js): the NetworkClient class, its pure     *)
(* wire <-> domain translations and the request sequences its asynchronous  *)
(* methods issue to the HTTP client they are given.                         *)
(*                                                                         *)
(* JavaScript objects are functions from field names to values; a field    *)
(* that is absent (or undefined) is not in the DOMAIN.  JavaScript strings  *)
(* that the code takes apart (addresses) are sequences of lexemes, so that  *)
(* split("/") and the formatting back are computed, not assumed.            *)
(***************************************************************************)
EXTENDS FiniteSets, Integers, Sequences, TLC

VARIABLES flow, pure, backend, networkClient, component

vars == <<flow, pure, backend, networkClient, component>>

---------------------------------------------------------------------------
(* Bounds of the model *)

\* longest list a GET response body carries
MaxList == 2

---------------------------------------------------------------------------
(* JavaScript values *)

\* the value null, as the value of an object field
Null == [null |-> TRUE]

\* if (x): an absent field reads undefined, and undefined and null are falsy;
\* every object is truthy
Truthy(o, k) == k \in DOMAIN o /\ o[k] # Null

\* { ...o, ...p }
Spread(o, p) ==
  [k \in (DOMAIN o) \cup (DOMAIN p) |-> IF k \in DOMAIN p THEN p[k] ELSE o[k]]

\* const { k1, k2, ...rest } = o
Rest(o, ks) == [k \in (DOMAIN o) \ ks |-> o[k]]

\* tagged values: what a promise resolves to, what a call returns
Undefined == [kind |-> "undefined"]
NullValue == [kind |-> "null"]
Bool(b) == [kind |-> "bool", b |-> b]
List(l) == [kind |-> "list", list |-> l]
Object(o) == [kind |-> "object", obj |-> o]
Rejected == [kind |-> "rejected"]

---------------------------------------------------------------------------
(* Strings as sequences of lexemes *)

\* the decimal lexemes the model uses and the numbers parseInt gives for them
DecimalValue ==
  [s \in {"0", "8", "16", "18", "24", "024", "32", "64", "128", "192", "255"} |->
     CASE s = "0" -> 0 [] s = "8" -> 8 [] s = "16" -> 16 [] s = "18" -> 18
       [] s = "24" -> 24
       [] s = "024" -> 24 [] s = "32" -> 32 [] s = "64" -> 64 [] s = "128" -> 128
       [] s = "192" -> 192 [] s = "255" -> 255]

\* the decimal lexemes written with a leading zero
LeadingZero == {"024"}

\* `${n}`: the decimal lexeme of a number, which has no leading zero
DecimalLexeme(n) ==
  CHOOSE s \in (DOMAIN DecimalValue) \ LeadingZero : DecimalValue[s] = n

\* s.split("/"): the pieces of s between the "/" lexemes
RECURSIVE Split(_)
Split(s) ==
  IF \A i \in 1..Len(s) : s[i] # "/"
  THEN <<s>>
  ELSE LET i == CHOOSE j \in 1..Len(s) :
                  s[j] = "/" /\ \A k \in 1..(j - 1) : s[k] # "/"
       IN <<SubSeq(s, 1, i - 1)>> \o Split(SubSeq(s, i + 1, Len(s)))


\* s.trim(): s without its leading and trailing blanks
RECURSIVE Trim(_)
Trim(s) ==
  IF s = <<>> THEN s
  ELSE IF Head(s) = " " THEN Trim(Tail(s))
  ELSE IF s[Len(s)] = " " THEN Trim(SubSeq(s, 1, Len(s) - 1))
  ELSE s

---------------------------------------------------------------------------
(* The collaborators of ./utils, ./model and ./network_manager *)

\* what a translation that throws yields instead of an object
Thrown == [thrown |-> TRUE]

\* 2^n
RECURSIVE Pow2(_)
Pow2(n) == IF n = 0 THEN 1 ELSE 2 * Pow2(n - 1)

\* the octets of a dotted netmask o1.o2.o3.o4
MaskOctets(m) == [i \in 1..4 |-> DecimalValue[m[2 * i - 1]]]

\* the octets with k leading one-bits and zero-bits after them
OctetOfOnes(k) == 256 - Pow2(8 - k)

\* the one-bits of the 32-bit mask are contiguous from the top: every octet
\* is so, and an octet with a one-bit follows only octets of eight
MaskContiguous(o) ==
  /\ \A i \in 1..4 : \E k \in 0..8 : o[i] = OctetOfOnes(k)
  /\ \A i \in 1..3 : o[i + 1] # 0 => o[i] = 255

\* the count of the leading one-bits of a contiguous mask
RECURSIVE MaskOnes(_, _)
MaskOnes(o, i) ==
  IF i > 4 THEN 0
  ELSE (CHOOSE k \in 0..8 : o[i] = OctetOfOnes(k)) + MaskOnes(o, i + 1)

\* a dotted netmask: four decimal lexemes below 256 with "." between them
IsDottedMask(m) ==
  /\ Len(m) = 7
  /\ \A i \in {2, 4, 6} : m[i] = "."
  /\ \A i \in {1, 3, 5, 7} : m[i] \in DOMAIN DecimalValue /\ DecimalValue[m[i]] < 256

\* ipPrefixFor(value): the number of an integer literal; of a dotted netmask
\* the count of its leading one-bits; a mask whose one-bits are not contiguous
\* and any other text fail
ipPrefixFor(value) ==
  IF Len(value) = 1 /\ value[1] \in DOMAIN DecimalValue
  THEN [ok |-> TRUE, prefix |-> DecimalValue[value[1]]]
  ELSE IF IsDottedMask(value) /\ MaskContiguous(MaskOctets(value))
  THEN [ok |-> TRUE, prefix |-> MaskOnes(MaskOctets(value), 1)]
  ELSE [ok |-> FALSE]

\* formatIp(addr): "address/prefix", or "address" alone without a prefix
formatIp(addr) ==
  IF "prefix" \in DOMAIN addr
  THEN addr.address \o <<"/", DecimalLexeme(addr.prefix)>>
  ELSE addr.address

\* ConnectionTypes of ./model
ConnectionTypes ==
  [ETHERNET |-> "ethernet", WIFI |-> "wireless", LOOPBACK |-> "loopback",
   BOND |-> "bond", VLAN |-> "vlan"]

\* createConnection(fields): the given fields over the defaults of the
\* omitted list fields
createConnection(fields) ==
  Spread([addresses |-> <<>>, nameservers |-> <<>>], fields)

\* securityFromFlags: a pure function of the three flag words that this
\* module does not interpret
securityFromFlags(flags, wpa_flags, rsn_flags) ==
  <<"security", flags, wpa_flags, rsn_flags>>

\* createAccessPoint(fields): the access point holding the given fields
createAccessPoint(fields) == fields

---------------------------------------------------------------------------
(* The pure translations of NetworkClient *)

\* a translation that keeps the address and leaves the prefix out when
\* ipPrefixFor fails
AddressFromApi_prefixGuessed(address) ==
  LET parts == Split(address)
      ip == parts[1]
  IN IF Len(parts) >= 2
     THEN LET p == ipPrefixFor(parts[2])
          IN IF p.ok THEN [address |-> ip, prefix |-> p.prefix] ELSE [address |-> ip]
     ELSE [address |-> ip]

\* const [ip, netmask] = address.split("/"), then the address with the prefix
\* of netmask unless netmask is undefined
AddressFromApi(address) ==
  LET parts == Split(address)
      ip == parts[1]
  IN IF Len(parts) >= 2
     THEN LET p == ipPrefixFor(parts[2])
          IN IF p.ok THEN [address |-> ip, prefix |-> p.prefix] ELSE Thrown
     ELSE [address |-> ip]

\* a routes4 record: ipPrefixFor is applied to netmask also when it is
\* undefined, where it throws
Route4FromApi(route) ==
  LET parts == Split(route.destination)
      ip == parts[1]
  IN IF Len(parts) >= 2 /\ ipPrefixFor(parts[2]).ok
     THEN Spread(route, [destination |->
                           [address |-> ip, prefix |-> ipPrefixFor(parts[2]).prefix]])
     ELSE Thrown

\* a routes6 translation that rebuilds the record from the fields it knows
Route6FromApi_fieldsPicked(route) ==
  LET destination == AddressFromApi(route.destination)
  IN IF destination = Thrown THEN Thrown
     ELSE Spread(Rest(route, {"table"}), [destination |-> destination])

\* a routes6 record
Route6FromApi(route) ==
  LET destination == AddressFromApi(route.destination)
  IN IF destination = Thrown THEN Thrown
     ELSE Spread(route, [destination |-> destination])

\* x.f || []
ListField(o, k) == IF k \in DOMAIN o THEN o[k] ELSE <<>>

AnyThrown(xs) == \E i \in 1..Len(xs) : xs[i] = Thrown

fromApiDevice(device) ==
  LET ipConfig == IF "ipConfig" \in DOMAIN device THEN device.ipConfig
                  ELSE [x \in {} |-> Null]
      dev == Rest(device, {"ipConfig"})
      nameservers == ListField(ipConfig, "nameservers")
      wire4 == ListField(ipConfig, "routes4")
      wire6 == ListField(ipConfig, "routes6")
      wireAddresses == ListField(ipConfig, "addresses")
      routes4 == [i \in 1..Len(wire4) |-> Route4FromApi(wire4[i])]
      routes6 == [i \in 1..Len(wire6) |-> Route6FromApi(wire6[i])]
      addresses == [i \in 1..Len(wireAddresses) |-> AddressFromApi(wireAddresses[i])]
  IN IF AnyThrown(routes4) \/ AnyThrown(routes6) \/ AnyThrown(addresses)
     THEN Thrown
     ELSE Spread(Spread(dev, ipConfig),
                 [addresses |-> addresses, nameservers |-> nameservers,
                  routes4 |-> routes4, routes6 |-> routes6])

fromApiConnection(connection) ==
  LET nameservers == ListField(connection, "nameservers")
      wireAddresses == ListField(connection, "addresses")
      addresses == [i \in 1..Len(wireAddresses) |-> AddressFromApi(wireAddresses[i])]
  IN IF AnyThrown(addresses) THEN Thrown
     ELSE Spread(connection, [addresses |-> addresses, nameservers |-> nameservers])

\* a classifier that looks at bond before wireless
connectionType_bondFirst(connection) ==
  IF Truthy(connection, "bond") THEN ConnectionTypes.BOND
  ELSE IF Truthy(connection, "wireless") THEN ConnectionTypes.WIFI
  ELSE IF Truthy(connection, "vlan") THEN ConnectionTypes.VLAN
  ELSE IF "iface" \in DOMAIN connection /\ connection.iface = "lo"
       THEN ConnectionTypes.LOOPBACK
  ELSE ConnectionTypes.ETHERNET

connectionType(connection) ==
  IF Truthy(connection, "wireless") THEN ConnectionTypes.WIFI
  ELSE IF Truthy(connection, "bond") THEN ConnectionTypes.BOND
  ELSE IF Truthy(connection, "vlan") THEN ConnectionTypes.VLAN
  ELSE IF "iface" \in DOMAIN connection /\ connection.iface = "lo"
       THEN ConnectionTypes.LOOPBACK
  ELSE ConnectionTypes.ETHERNET

\* a gateway is written to the wire object unless it trims to "" (an
\* undefined one is written as undefined, which is the field being absent)
GatewayField(connection, k) ==
  IF k \in DOMAIN connection /\ Trim(connection[k]) # <<>>
  THEN [x \in {k} |-> connection[k]]
  ELSE [x \in {} |-> Null]

\* a translation to the wire that formats the address alone
toApiConnection_prefixDropped(connection) ==
  LET given == ListField(connection, "addresses")
      addresses == [i \in 1..Len(given) |-> given[i].address]
      conn == Rest(connection, {"iface", "gateway4", "gateway6"})
      withGateways == Spread(Spread(conn, GatewayField(connection, "gateway4")),
                             GatewayField(connection, "gateway6"))
      interface == IF "iface" \in DOMAIN connection
                   THEN [interface |-> connection.iface]
                   ELSE [x \in {} |-> Null]
  IN Spread(Spread(withGateways, [addresses |-> addresses]), interface)

toApiConnection(connection) ==
  LET given == ListField(connection, "addresses")
      addresses == [i \in 1..Len(given) |-> formatIp(given[i])]
      conn == Rest(connection, {"iface", "gateway4", "gateway6"})
      withGateways == Spread(Spread(conn, GatewayField(connection, "gateway4")),
                             GatewayField(connection, "gateway6"))
      interface == IF "iface" \in DOMAIN connection
                   THEN [interface |-> connection.iface]
                   ELSE [x \in {} |-> Null]
  IN Spread(Spread(withGateways, [addresses |-> addresses]), interface)

\* the access point of one record of GET /network/wifi
AccessPointFromApi(ap) ==
  createAccessPoint([ssid |-> ap.ssid, hwAddress |-> ap.hw_address,
                     strength |-> ap.strength,
                     security |-> securityFromFlags(ap.flags, ap.wpa_flags, ap.rsn_flags)])

\* if (options.k): a string option is set unless absent or "", the boolean
\* option hidden unless absent or false
OptionSet(options, k) ==
  /\ k \in DOMAIN options
  /\ IF k = "hidden" THEN options[k] = TRUE ELSE options[k] # ""

\* wireless settings that keep the mode "infrastructure" whatever the options
WirelessFor_modeKept(ssid, options) ==
  LET copied == [k \in {x \in {"security", "password", "hidden"} :
                          OptionSet(options, x)} |-> options[k]]
  IN Spread([ssid |-> ssid, mode |-> "infrastructure"], copied)

\* the wireless settings addAndConnectTo synthesizes
WirelessFor(ssid, options) ==
  LET copied == [k \in {x \in {"security", "password", "hidden", "mode"} :
                          OptionSet(options, x)} |-> options[k]]
  IN Spread([ssid |-> ssid, mode |-> "infrastructure"], copied)

---------------------------------------------------------------------------
(* The data of the model: what the backend may answer, what callers pass *)

DeviceType == [LOOPBACK |-> 0, ETHERNET |-> 1, WIRELESS |-> 2, DUMMY |-> 3, BOND |-> 4]

\* all lists over S of at most n elements
ListsUpTo(S, n) == UNION {[1..k -> S] : k \in 0..n}

WireEth0 ==
  [id |-> "eth0", iface |-> "eth0",
   addresses |-> << <<"192.168.1.10", "/", "24">> >>, nameservers |-> <<"8.8.8.8">>]

\* a second record with the id eth0, carrying a type of its own
WireEth0Lo ==
  [id |-> "eth0", iface |-> "lo", type |-> "bond",
   addresses |-> << <<"127.0.0.1">> >>]

WireWifi ==
  [id |-> "Home", type |-> "ethernet", wireless |-> [ssid |-> "Home"],
   bond |-> Null, nameservers |-> <<>>]

WireConnections == {WireEth0, WireEth0Lo, WireWifi}

WireDevices ==
  { [name |-> "lo", type |-> DeviceType.LOOPBACK],
    [name |-> "eth0", type |-> DeviceType.ETHERNET,
     ipConfig |->
       [method4 |-> "auto",
        addresses |-> << <<"192.168.1.10", "/", "255", ".", "255", ".", "255", ".", "0">> >>,
        nameservers |-> <<"8.8.8.8">>,
        routes4 |-> << [destination |-> <<"0.0.0.0", "/", "0">>,
                        nextHop |-> "192.168.1.1", metric |-> 100] >>,
        routes6 |-> << [destination |-> <<"fe80::">>, nextHop |-> "::"] >>]] }

WireAccessPoints ==
  { [ssid |-> "Home", hw_address |-> "AA:BB:CC:DD:EE:FF", strength |-> 80,
     flags |-> 0, wpa_flags |-> 0, rsn_flags |-> 1],
    [ssid |-> "Home", hw_address |-> "11:22:33:44:55:66", strength |-> 40,
     flags |-> 1, wpa_flags |-> 0, rsn_flags |-> 0] }

WireSettings == { [wireless_enabled |-> TRUE, hostname |-> "agama"] }

\* the connections callers pass to the mutating operations
CallerConnections ==
  { [id |-> "eth0", iface |-> "eth0", gateway4 |-> <<"192.168.1.1">>,
     gateway6 |-> <<" ">>,
     addresses |-> << [address |-> <<"192.168.1.10">>, prefix |-> 24] >>,
     nameservers |-> <<"8.8.8.8">>],
    [id |-> "eth0", iface |-> "eth0",
     addresses |-> << [address |-> <<"192.168.1.20">>, prefix |-> 24] >>],
    [id |-> "Home", wireless |-> [ssid |-> "Home", mode |-> "infrastructure"],
     addresses |-> << [address |-> <<"10.0.0.1">>] >>] }

CallerIds == {"eth0", "Home", "none"}

CallerSsids == {"Home"}

CallerOptions ==
  { [x \in {} |-> ""],
    [security |-> "wpa2", password |-> "secret"],
    [mode |-> "ad-hoc", password |-> "", hidden |-> TRUE] }

---------------------------------------------------------------------------
(* The transport: requests, responses *)

Get(path) == [method |-> "GET", path |-> path]
Post(path, data) == [method |-> "POST", path |-> path, data |-> data]
Put(path, data) == [method |-> "PUT", path |-> path, data |-> data]
Delete(path) == [method |-> "DELETE", path |-> path]

ApplyPath == <<"/network/system/apply">>
ConnectionsPath == <<"/network/connections">>
\* `/network/connections/${id}`
ConnectionPath(id) == <<"/network/connections/", id>>

EmptyObject == [x \in {} |-> Null]

Response(ok, body) == [kind |-> "response", ok |-> ok, body |-> body]

\* what response.json() may give for an ok response to the request
OkBodies(req) ==
  IF req.method = "GET" /\ req.path = <<"/network/devices">>
    THEN {List(l) : l \in ListsUpTo(WireDevices, MaxList)}
  ELSE IF req.method = "GET" /\ req.path = ConnectionsPath
    THEN {List(l) : l \in ListsUpTo(WireConnections, MaxList)}
  ELSE IF req.method = "GET" /\ req.path = <<"/network/wifi">>
    THEN {List(l) : l \in ListsUpTo(WireAccessPoints, MaxList)}
  ELSE IF req.method = "GET" /\ req.path = <<"/network/settings">>
    THEN {Object(o) : o \in WireSettings}
  ELSE IF req.method = "POST" /\ req.path = ConnectionsPath
    THEN {Object(o) : o \in WireConnections}
  ELSE {Undefined}

Responses(req) ==
  {Response(FALSE, Undefined)} \cup {Response(TRUE, b) : b \in OkBodies(req)}

---------------------------------------------------------------------------
(* A flow: one caller running one operation of the client at a time.       *)
(* stack holds the frames of the asynchronous functions that are suspended *)
(* at an await, the innermost last; ret is the value the innermost frame   *)
(* is resumed with; inflight are the requests handed to the transport and  *)
(* not yet answered; trace is the order of the requests and responses of   *)
(* the running operation.                                                  *)

Flows == {1, 2}

NoRet == [has |-> FALSE]

IdleFlow ==
  [status |-> "idle", call |-> [op |-> "none"], stack |-> <<>>, ret |-> NoRet,
   inflight |-> {}, trace |-> <<>>, console |-> <<>>, result |-> Undefined]

OffFlow == [IdleFlow EXCEPT !.status = "off"]

\* a caller invokes an operation
Begin(call) == [IdleFlow EXCEPT !.status = "running", !.call = call]

Push(fl, frame) == [fl EXCEPT !.stack = Append(@, frame)]

Top(fl) == fl.stack[Len(fl.stack)]

SetTop(fl, frame) == [fl EXCEPT !.stack[Len(fl.stack)] = frame, !.ret = NoRet]

\* this.client.<method>(...): the request goes to the transport
Issue(fl, req) ==
  [fl EXCEPT !.inflight = @ \cup {req},
             !.trace = Append(@, [ev |-> "request", req |-> req])]

\* console.error(...)
Log(fl, msg) == [fl EXCEPT !.console = Append(@, msg)]

\* the innermost function returns value: its caller is resumed with it, or
\* the operation's promise resolves to it
Return(fl, value) ==
  IF Len(fl.stack) = 1
  THEN [fl EXCEPT !.stack = <<>>, !.ret = NoRet, !.status = "done", !.result = value]
  ELSE [fl EXCEPT !.stack = SubSeq(@, 1, Len(@) - 1),
                  !.ret = [has |-> TRUE, val |-> value]]

\* the innermost function throws: no function of the client catches
Throw(fl) ==
  [fl EXCEPT !.stack = <<>>, !.ret = NoRet, !.status = "done", !.result = Rejected]

\* the innermost frame is fn at pc and the value it awaits has arrived
Resumable(fl, fn, pc) ==
  /\ fl.status = "running"
  /\ fl.stack # <<>>
  /\ Top(fl).fn = fn
  /\ Top(fl).pc = pc
  /\ fl.ret.has

---------------------------------------------------------------------------
(* The asynchronous methods of NetworkClient: each runs from its call to   *)
(* its first await in one step, and from one await to the next (or to its  *)
(* return) in one step.                                                    *)

\* a method called: its frame, suspended at its first await
devices_enter(fl) ==
  Issue(Push(fl, [fn |-> "devices", pc |-> "get"]), Get(<<"/network/devices">>))

connections_enter(fl) ==
  Issue(Push(fl, [fn |-> "connections", pc |-> "get"]), Get(ConnectionsPath))

accessPoints_enter(fl) ==
  Issue(Push(fl, [fn |-> "accessPoints", pc |-> "get"]), Get(<<"/network/wifi">>))

settings_enter(fl) ==
  Issue(Push(fl, [fn |-> "settings", pc |-> "get"]), Get(<<"/network/settings">>))

apply_enter(fl) ==
  Issue(Push(fl, [fn |-> "apply", pc |-> "put"]), Put(ApplyPath, EmptyObject))

addConnection_enter(fl, connection) ==
  Issue(Push(fl, [fn |-> "addConnection", pc |-> "post"]),
        Post(ConnectionsPath, toApiConnection(connection)))

connectTo_enter(fl, connection) ==
  addConnection_enter(Push(fl, [fn |-> "connectTo", pc |-> "addConnection"]), connection)

addAndConnectTo_enter(fl, ssid, options) ==
  connectTo_enter(Push(fl, [fn |-> "addAndConnectTo", pc |-> "connectTo"]),
                  createConnection([id |-> ssid, wireless |-> WirelessFor(ssid, options)]))

getConnection_enter(fl, id) ==
  connections_enter(Push(fl, [fn |-> "getConnection", pc |-> "connections", id |-> id]))

\* updateConnection() calling apply() without awaiting its PUT
updateConnection_enter_unawaited(fl, connection) ==
  LET conn == toApiConnection(connection)
  IN apply_enter(Issue(Push(fl, [fn |-> "updateConnection", pc |-> "apply"]),
                       Put(ConnectionPath(conn.id), conn)))

updateConnection_enter(fl, connection) ==
  LET conn == toApiConnection(connection)
  IN Issue(Push(fl, [fn |-> "updateConnection", pc |-> "put"]),
           Put(ConnectionPath(conn.id), conn))

deleteConnection_enter(fl, id) ==
  Issue(Push(fl, [fn |-> "deleteConnection", pc |-> "delete"]),
        Delete(ConnectionPath(id)))

\* a caller starts an operation on an idle flow
devices(f) ==
  /\ flow[f].status = "idle"
  /\ flow' = [flow EXCEPT ![f] = devices_enter(Begin([op |-> "devices"]))]
  /\ UNCHANGED <<pure, backend, networkClient, component>>

connections(f) ==
  /\ flow[f].status = "idle"
  /\ flow' = [flow EXCEPT ![f] = connections_enter(Begin([op |-> "connections"]))]
  /\ UNCHANGED <<pure, backend, networkClient, component>>

accessPoints(f) ==
  /\ flow[f].status = "idle"
  /\ flow' = [flow EXCEPT ![f] = accessPoints_enter(Begin([op |-> "accessPoints"]))]
  /\ UNCHANGED <<pure, backend, networkClient, component>>

settings(f) ==
  /\ flow[f].status = "idle"
  /\ flow' = [flow EXCEPT ![f] = settings_enter(Begin([op |-> "settings"]))]
  /\ UNCHANGED <<pure, backend, networkClient, component>>

apply(f) ==
  /\ flow[f].status = "idle"
  /\ flow' = [flow EXCEPT ![f] = apply_enter(Begin([op |-> "apply"]))]
  /\ UNCHANGED <<pure, backend, networkClient, component>>

addConnection(f) ==
  /\ flow[f].status = "idle"
  /\ \E connection \in CallerConnections :
       flow' = [flow EXCEPT ![f] =
                  addConnection_enter(Begin([op |-> "addConnection",
                                             connection |-> connection]), connection)]
  /\ UNCHANGED <<pure, backend, networkClient, component>>

connectTo(f) ==
  /\ flow[f].status = "idle"
  /\ \E connection \in CallerConnections :
       flow' = [flow EXCEPT ![f] =
                  connectTo_enter(Begin([op |-> "connectTo",
                                         connection |-> connection]), connection)]
  /\ UNCHANGED <<pure, backend, networkClient, component>>

addAndConnectTo(f) ==
  /\ flow[f].status = "idle"
  /\ \E ssid \in CallerSsids, options \in CallerOptions :
       flow' = [flow EXCEPT ![f] =
                  addAndConnectTo_enter(Begin([op |-> "addAndConnectTo", ssid |-> ssid,
                                               options |-> options]), ssid, options)]
  /\ UNCHANGED <<pure, backend, networkClient, component>>

getConnection(f) ==
  /\ flow[f].status = "idle"
  /\ \E id \in CallerIds :
       flow' = [flow EXCEPT ![f] =
                  getConnection_enter(Begin([op |-> "getConnection", id |-> id]), id)]
  /\ UNCHANGED <<pure, backend, networkClient, component>>

updateConnection(f) ==
  /\ flow[f].status = "idle"
  /\ \E connection \in CallerConnections :
       flow' = [flow EXCEPT ![f] =
                  updateConnection_enter(Begin([op |-> "updateConnection",
                                                connection |-> connection]), connection)]
  /\ UNCHANGED <<pure, backend, networkClient, component>>

deleteConnection(f) ==
  /\ flow[f].status = "idle"
  /\ \E id \in CallerIds :
       flow' = [flow EXCEPT ![f] =
                  deleteConnection_enter(Begin([op |-> "deleteConnection", id |-> id]), id)]
  /\ UNCHANGED <<pure, backend, networkClient, component>>

\* the transport answers one request of the flow: ok or not, with a body
Respond(f) ==
  /\ flow[f].status = "running"
  /\ ~flow[f].ret.has
  /\ \E req \in flow[f].inflight :
       \E response \in Responses(req) :
         flow' = [flow EXCEPT ![f] =
                    [@ EXCEPT !.inflight = @ \ {req},
                              !.ret = [has |-> TRUE, val |-> response],
                              !.trace = Append(@, [ev |-> "response", req |-> req,
                                                   ok |-> response.ok,
                                                   body |-> response.body])]]
  /\ UNCHANGED <<pure, backend, networkClient, component>>

\* the innermost frame, fn at pc, is resumed and runs to next
Resume(f, fn, pc, next) ==
  /\ Resumable(flow[f], fn, pc)
  /\ flow' = [flow EXCEPT ![f] = next]
  /\ UNCHANGED <<pure, backend, networkClient, component>>

\* devices() decoding the body without looking at response.ok
devices_return_unchecked(fl) ==
  LET response == fl.ret.val
  IN IF ~response.ok THEN Throw(fl)
     ELSE LET wire == response.body.list
          IN Return(fl, List([i \in 1..Len(wire) |-> fromApiDevice(wire[i])]))

\* devices(), after the GET
devices_return(fl) ==
  LET response == fl.ret.val
  IN IF ~response.ok THEN Return(fl, List(<<>>))
     ELSE LET wire == response.body.list
              devs == [i \in 1..Len(wire) |-> fromApiDevice(wire[i])]
          IN IF AnyThrown(devs) THEN Throw(fl) ELSE Return(fl, List(devs))

devices_afterGet(f) == Resume(f, "devices", "get", devices_return(flow[f]))

\* connections(), after the GET
connections_return(fl) ==
  LET response == fl.ret.val
  IN IF ~response.ok
     THEN Return(Log(fl, "Failed to get list of connections"), List(<<>>))
     ELSE LET wire == response.body.list
              conns == [i \in 1..Len(wire) |-> fromApiConnection(wire[i])]
          IN IF AnyThrown(conns) THEN Throw(fl) ELSE Return(fl, List(conns))

connections_afterGet(f) == Resume(f, "connections", "get", connections_return(flow[f]))

\* the access points of the list without those whose ssid came earlier
RECURSIVE DedupedBySsid(_)
DedupedBySsid(aps) ==
  IF aps = <<>> THEN <<>>
  ELSE LET front == DedupedBySsid(SubSeq(aps, 1, Len(aps) - 1))
           last == aps[Len(aps)]
       IN IF \E i \in 1..Len(front) : front[i].ssid = last.ssid
          THEN front ELSE Append(front, last)

\* accessPoints() keeping one access point per ssid
accessPoints_return_deduped(fl) ==
  LET response == fl.ret.val
  IN IF ~response.ok
     THEN Return(Log(fl, "Failed to get list of APs"), List(<<>>))
     ELSE LET wire == response.body.list
          IN Return(fl, List(DedupedBySsid(
                              [i \in 1..Len(wire) |-> AccessPointFromApi(wire[i])])))

\* accessPoints(), after the GET
accessPoints_return(fl) ==
  LET response == fl.ret.val
  IN IF ~response.ok
     THEN Return(Log(fl, "Failed to get list of APs"), List(<<>>))
     ELSE LET wire == response.body.list
          IN Return(fl, List([i \in 1..Len(wire) |-> AccessPointFromApi(wire[i])]))

accessPoints_afterGet(f) == Resume(f, "accessPoints", "get", accessPoints_return(flow[f]))

\* settings(), after the GET
settings_return(fl) ==
  LET response == fl.ret.val
  IN IF ~response.ok
     THEN Return(Log(fl, "Failed to get settings"), Object(EmptyObject))
     ELSE Return(fl, response.body)

settings_afterGet(f) == Resume(f, "settings", "get", settings_return(flow[f]))

\* apply() issuing its PUT again when the answer is not ok
apply_return_retry(fl) ==
  IF fl.ret.val.ok THEN Return(fl, fl.ret.val)
  ELSE Issue(SetTop(fl, Top(fl)), Put(ApplyPath, EmptyObject))

\* apply() resolves to the response of its PUT
apply_return(fl) == Return(fl, fl.ret.val)

apply_afterPut(f) == Resume(f, "apply", "put", apply_return(flow[f]))

\* addConnection() decoding the body without looking at response.ok
addConnection_return_unchecked(fl) == Return(fl, fl.ret.val.body)

\* addConnection(), after the POST
addConnection_return(fl) ==
  LET response == fl.ret.val
  IN IF ~response.ok
     THEN Return(Log(fl, "Failed to post list of connections"), NullValue)
     ELSE Return(fl, response.body)

addConnection_afterPost(f) ==
  Resume(f, "addConnection", "post", addConnection_return(flow[f]))

\* connectTo() returning early, without the apply, when addConnection gave null
connectTo_apply_onlyIfAdded(fl) ==
  IF fl.ret.val = NullValue THEN Return(fl, NullValue)
  ELSE apply_enter(SetTop(fl, [fn |-> "connectTo", pc |-> "apply", conn |-> fl.ret.val]))

\* connectTo() returning what addConnection gave without the apply
connectTo_apply_skipped(fl) == Return(fl, fl.ret.val)

\* connectTo(), after addConnection: conn is kept and apply() awaited
connectTo_apply(fl) ==
  apply_enter(SetTop(fl, [fn |-> "connectTo", pc |-> "apply", conn |-> fl.ret.val]))

connectTo_afterAddConnection(f) ==
  Resume(f, "connectTo", "addConnection", connectTo_apply(flow[f]))

\* connectTo(), after apply
connectTo_return(fl) == Return(fl, Top(fl).conn)

connectTo_afterApply(f) == Resume(f, "connectTo", "apply", connectTo_return(flow[f]))

\* addAndConnectTo() resolves to what its connectTo resolves to
addAndConnectTo_return(fl) == Return(fl, fl.ret.val)

addAndConnectTo_afterConnectTo(f) ==
  Resume(f, "addAndConnectTo", "connectTo", addAndConnectTo_return(flow[f]))

\* a find that keeps the last match
Find_last(conns, id) ==
  LET hits == {i \in 1..Len(conns) : "id" \in DOMAIN conns[i] /\ conns[i].id = id}
  IN IF hits = {} THEN Undefined
     ELSE Object(conns[CHOOSE i \in hits : \A j \in hits : i >= j])

\* connections.find((conn) => conn.id === id)
Find(conns, id) ==
  LET hits == {i \in 1..Len(conns) : "id" \in DOMAIN conns[i] /\ conns[i].id = id}
  IN IF hits = {} THEN Undefined
     ELSE Object(conns[CHOOSE i \in hits : \A j \in hits : i <= j])

\* getConnection(), after connections()
getConnection_return(fl) == Return(fl, Find(fl.ret.val.list, Top(fl).id))

getConnection_afterConnections(f) ==
  Resume(f, "getConnection", "connections", getConnection_return(flow[f]))

\* updateConnection() resolving to the ok of its PUT, with no apply
updateConnection_apply_omitted(fl) == Return(fl, Bool(fl.ret.val.ok))

\* updateConnection(), after its PUT: the response is dropped, apply() awaited
updateConnection_apply(fl) ==
  apply_enter(SetTop(fl, [fn |-> "updateConnection", pc |-> "apply"]))

updateConnection_afterPut(f) ==
  Resume(f, "updateConnection", "put", updateConnection_apply(flow[f]))

\* updateConnection() resolving to the ok of every response the client
\* holds at that moment, its own and the other flows'
updateConnection_return_shared(fl) ==
  Return(fl, Bool(\A g \in Flows : flow[g].ret.has => flow[g].ret.val.ok))

\* updateConnection() resolving to the apply response itself, not to its ok
updateConnection_return_response(fl) == Return(fl, fl.ret.val)

\* updateConnection(), after apply
updateConnection_return(fl) == Return(fl, Bool(fl.ret.val.ok))

updateConnection_afterApply(f) ==
  Resume(f, "updateConnection", "apply", updateConnection_return(flow[f]))

\* deleteConnection(), after its DELETE: the response is dropped, apply() awaited
deleteConnection_apply(fl) ==
  apply_enter(SetTop(fl, [fn |-> "deleteConnection", pc |-> "apply"]))

deleteConnection_afterDelete(f) ==
  Resume(f, "deleteConnection", "delete", deleteConnection_apply(flow[f]))

\* deleteConnection(), after apply
deleteConnection_return(fl) == Return(fl, Bool(fl.ret.val.ok))

deleteConnection_afterApply(f) ==
  Resume(f, "deleteConnection", "apply", deleteConnection_return(flow[f]))

\* the caller has the operation's result; the flow is free for the next call
Finish(f) ==
  /\ flow[f].status = "done"
  /\ flow' = [flow EXCEPT ![f] = IdleFlow]
  /\ UNCHANGED <<pure, backend, networkClient, component>>

---------------------------------------------------------------------------
(* The specification of the client: one caller, one operation at a time *)

NoPure == [fn |-> "none"]

\* no backend behind the transport: any answer may come
NoBackend == [staging |-> FALSE]

\* new NetworkClient(client): the object holds the HTTP client it is given
NewNetworkClient == [client |-> "HTTPClient"]

\* no PasswordAndConfirmationInput is mounted
NoComponent == [mounted |-> FALSE]

Init ==
  /\ flow = [f \in Flows |-> IF f = 1 THEN IdleFlow ELSE OffFlow]
  /\ pure = NoPure
  /\ backend = NoBackend
  /\ networkClient = NewNetworkClient
  /\ component = NoComponent

Next ==
  \E f \in Flows :
    \/ devices(f)
    \/ connections(f)
    \/ accessPoints(f)
    \/ settings(f)
    \/ apply(f)
    \/ addConnection(f)
    \/ connectTo(f)
    \/ addAndConnectTo(f)
    \/ getConnection(f)
    \/ updateConnection(f)
    \/ deleteConnection(f)
    \/ Respond(f)
    \/ devices_afterGet(f)
    \/ connections_afterGet(f)
    \/ accessPoints_afterGet(f)
    \/ settings_afterGet(f)
    \/ apply_afterPut(f)
    \/ addConnection_afterPost(f)
    \/ connectTo_afterAddConnection(f)
    \/ connectTo_afterApply(f)
    \/ addAndConnectTo_afterConnectTo(f)
    \/ getConnection_afterConnections(f)
    \/ updateConnection_afterPut(f)
    \/ updateConnection_afterApply(f)
    \/ deleteConnection_afterDelete(f)
    \/ deleteConnection_afterApply(f)
    \/ Finish(f)

Spec == Init /\ [][Next]_vars

---------------------------------------------------------------------------
(* The specification of the classifier: connectionType applied to a record *)

\* a field that is absent or holds one of vals
Optional(k, vals) == {EmptyObject} \cup {[x \in {k} |-> val] : val \in vals}

\* records with each marker field absent, null or an object, and iface
\* absent, "lo" or "eth0"
ClassifierInputs ==
  { Spread(Spread(Spread(Spread([id |-> "c"], w), b), v), i) :
      w \in Optional("wireless", {Null, [ssid |-> "Home"]}),
      b \in Optional("bond", {Null, [mode |-> "active-backup"]}),
      v \in Optional("vlan", {Null, [vlan_id |-> 10]}),
      i \in Optional("iface", {"lo", "eth0"}) }

InitConnectionType ==
  /\ flow = [f \in Flows |-> OffFlow]
  /\ pure \in {[fn |-> "connectionType", arg |-> c, done |-> FALSE] :
                 c \in ClassifierInputs}
  /\ backend = NoBackend
  /\ networkClient = NewNetworkClient
  /\ component = NoComponent

ApplyConnectionType ==
  /\ pure.fn = "connectionType"
  /\ ~pure.done
  /\ pure' = [fn |-> "connectionType", arg |-> pure.arg, done |-> TRUE,
              out |-> connectionType(pure.arg)]
  /\ UNCHANGED <<flow, backend, networkClient, component>>

NextConnectionType == ApplyConnectionType

SpecConnectionType == InitConnectionType /\ [][NextConnectionType]_vars

---------------------------------------------------------------------------
(* What the properties read off a flow *)

IsApply(req) == req.method = "PUT" /\ req.path = ApplyPath

\* the POST, PUT or DELETE that writes a connection
IsWrite(req) == req.method \in {"POST", "PUT", "DELETE"} /\ ~IsApply(req)

\* the trace holds the response, ok or not as given, to a request for which
\* the flag apply says whether it is the apply request
Answered(fl, applyReq, ok) ==
  \E i \in 1..Len(fl.trace) :
    /\ fl.trace[i].ev = "response"
    /\ IsApply(fl.trace[i].req) = applyReq
    /\ fl.trace[i].ok = ok

\* the positions of the trace where a request is issued
RequestsAt(fl) == {i \in 1..Len(fl.trace) : fl.trace[i].ev = "request"}

\* the flow has completed a call of op
Completed(fl, op) == fl.status = "done" /\ fl.call.op = op

---------------------------------------------------------------------------
(* Properties *)

\* C1: a completed updateConnection whose PUT /network/connections/{id} was
\* answered ok and whose PUT /network/system/apply was answered not ok has
\* resolved to false.
C1_ApplyCoupling ==
  \A f \in Flows :
    ( /\ Completed(flow[f], "updateConnection")
      /\ Answered(flow[f], FALSE, TRUE)
      /\ Answered(flow[f], TRUE, FALSE) )
    => flow[f].result = Bool(FALSE)

C1_Witness ==
  \E f \in Flows :
    /\ Completed(flow[f], "updateConnection")
    /\ Answered(flow[f], FALSE, TRUE)
    /\ Answered(flow[f], TRUE, FALSE)
    /\ flow[f].result = Bool(FALSE)

\* C2: a completed deleteConnection has resolved to true if and only if both
\* its DELETE and its apply were answered ok, and to false otherwise.
C2_DeleteTrueIffBothOk ==
  \A f \in Flows :
    Completed(flow[f], "deleteConnection")
    => flow[f].result =
         Bool(Answered(flow[f], FALSE, TRUE) /\ Answered(flow[f], TRUE, TRUE))

\* C3: a completed updateConnection has resolved to true if its PUT of the
\* connection was answered ok and to false if it was answered not ok, whatever
\* the answer to apply.
C3_UpdateFollowsPut ==
  \A f \in Flows :
    Completed(flow[f], "updateConnection")
    => flow[f].result = Bool(Answered(flow[f], FALSE, TRUE))

\* the requests of the operation are a write and, issued after it, an apply
WriteThenApply(fl) ==
  \E i, j \in RequestsAt(fl) :
    /\ i < j
    /\ IsWrite(fl.trace[i].req)
    /\ IsApply(fl.trace[j].req)

C5_ApplyAfterWriteResponse ==
  \A f \in Flows :
    flow[f].call.op \in {"updateConnection", "deleteConnection", "connectTo"}
    => /\ ~\E a, w \in flow[f].inflight : IsApply(a) /\ IsWrite(w)
       /\ \A j \in RequestsAt(flow[f]) :
            IsApply(flow[f].trace[j].req)
            => \E i \in 1..(j - 1) :
                 /\ flow[f].trace[i].ev = "response"
                 /\ IsWrite(flow[f].trace[i].req)

C5_Witness ==
  \E f \in Flows :
    /\ flow[f].call.op = "updateConnection"
    /\ \E a \in flow[f].inflight : IsApply(a)

\* the operation issued one request, a GET, and it was answered not ok
OneGetFailed(fl) ==
  /\ Len(fl.trace) = 2
  /\ fl.trace[1].ev = "request"
  /\ fl.trace[1].req.method = "GET"
  /\ fl.trace[2].ev = "response"
  /\ ~fl.trace[2].ok

\* C6: a completed devices(), connections(), accessPoints() or settings()
\* whose GET was answered not ok has resolved (not rejected) to the empty list,
\* settings() to the empty object, and has issued no request but the GET.
C6_SoftFailOnRead ==
  \A f \in Flows :
    /\ ( /\ flow[f].status = "done"
         /\ flow[f].call.op \in {"devices", "connections", "accessPoints"}
         /\ \E i \in 1..Len(flow[f].trace) :
              flow[f].trace[i].ev = "response" /\ ~flow[f].trace[i].ok )
       => flow[f].result = List(<<>>) /\ OneGetFailed(flow[f])
    /\ ( /\ Completed(flow[f], "settings")
         /\ \E i \in 1..Len(flow[f].trace) :
              flow[f].trace[i].ev = "response" /\ ~flow[f].trace[i].ok )
       => flow[f].result = Object(EmptyObject) /\ OneGetFailed(flow[f])

C6_Witness ==
  \E f \in Flows :
    /\ Completed(flow[f], "devices")
    /\ OneGetFailed(flow[f])
    /\ flow[f].result = List(<<>>)

Markers == {"wireless", "bond", "vlan"}

\* the marker fields present in the record c, whatever they hold
PresentMarkers(c) == [k \in Markers |-> k \in DOMAIN c]

\* the marker fields of the record c that hold a truthy value
TruthyMarkers(c) == [k \in Markers |-> Truthy(c, k)]

\* out is the first match of the rules wireless, bond, vlan, iface = "lo",
\* default, where marked[k] says that the record c carries the marker k
FirstMatch(marked, c, out) ==
  LET lo == "iface" \in DOMAIN c /\ c.iface = "lo"
  IN /\ marked.wireless => out = ConnectionTypes.WIFI
     /\ (~marked.wireless /\ marked.bond) => out = ConnectionTypes.BOND
     /\ (~marked.wireless /\ ~marked.bond /\ marked.vlan)
        => out = ConnectionTypes.VLAN
     /\ (~marked.wireless /\ ~marked.bond /\ ~marked.vlan /\ lo)
        => out = ConnectionTypes.LOOPBACK
     /\ (~marked.wireless /\ ~marked.bond /\ ~marked.vlan /\ ~lo)
        => out = ConnectionTypes.ETHERNET

\* C7 as stated: connectionType gives, for every record, the first match over
\* the presence of the fields wireless, bond, vlan, then iface = "lo", then
\* the default ETHERNET.
C7_FirstMatchByPresence ==
  (pure.fn = "connectionType" /\ pure.done)
  => FirstMatch(PresentMarkers(pure.arg), pure.arg, pure.out)

\* C7 as amended: connectionType gives, for every record, the first match over
\* the fields wireless, bond, vlan holding a truthy value (a field that is
\* present but null counts as absent), then iface = "lo", then the default
\* ETHERNET; a record with wireless and bond objects is WIRELESS, a record
\* without markers is LOOPBACK for iface "lo" and ETHERNET for iface "eth0".
C7_FirstMatchByTruthiness ==
  (pure.fn = "connectionType" /\ pure.done)
  => /\ FirstMatch(TruthyMarkers(pure.arg), pure.arg, pure.out)
     /\ pure.out \in {ConnectionTypes.WIFI, ConnectionTypes.BOND, ConnectionTypes.VLAN,
                      ConnectionTypes.LOOPBACK, ConnectionTypes.ETHERNET}

C7_Witness ==
  /\ pure.fn = "connectionType"
  /\ pure.done
  /\ Truthy(pure.arg, "wireless")
  /\ Truthy(pure.arg, "bond")
  /\ pure.out = ConnectionTypes.WIFI

\* the connections an operation's result holds
ConnectionsIn(result) ==
  IF result.kind = "list" THEN {result.list[i] : i \in 1..Len(result.list)}
  ELSE IF result.kind = "object" THEN {result.obj}
  ELSE {}

\* C8: every Connection that a completed connections() or getConnection()
\* has resolved to carries a type, and the type is the classifier's result for
\* the record.
C8_TypeIsClassified ==
  \A f \in Flows :
    ( /\ flow[f].status = "done"
      /\ flow[f].call.op \in {"connections", "getConnection"} )
    => \A conn \in ConnectionsIn(flow[f].result) :
         "type" \in DOMAIN conn /\ conn.type = connectionType(conn)

\* C9: a completed getConnection(id) has issued one GET and has resolved, not
\* rejected: to undefined when the GET was answered not ok or no record of the
\* answered list has the id, and else to the translation of the first record,
\* in the order of the answered list, that has the id.
C9_GetConnectionFirstMatch ==
  \A f \in Flows :
    Completed(flow[f], "getConnection")
    => LET fl == flow[f]
           id == fl.call.id
       IN /\ Len(fl.trace) = 2
          /\ fl.trace[2].ev = "response"
          /\ IF ~fl.trace[2].ok THEN fl.result = Undefined
             ELSE LET wire == fl.trace[2].body.list
                      hits == {i \in 1..Len(wire) : wire[i].id = id}
                  IN IF hits = {} THEN fl.result = Undefined
                     ELSE \E i \in hits :
                            /\ \A j \in hits : i <= j
                            /\ fl.result = Object(fromApiConnection(wire[i]))

C9_Witness ==
  \E f \in Flows :
    /\ Completed(flow[f], "getConnection")
    /\ flow[f].trace[2].ok
    /\ LET wire == flow[f].trace[2].body.list
       IN /\ Len(wire) = 2
          /\ wire[1].id = flow[f].call.id
          /\ wire[2].id = flow[f].call.id
          /\ wire[1] # wire[2]
          /\ flow[f].result = Object(fromApiConnection(wire[1]))

\* C10: a completed addConnection has issued exactly one request, the POST to
\* /network/connections, and has resolved to null when it was answered not ok
\* and to the decoded body of the response when it was answered ok.
C10_AddConnectionResult ==
  \A f \in Flows :
    Completed(flow[f], "addConnection")
    => LET fl == flow[f]
       IN /\ Cardinality(RequestsAt(fl)) = 1
          /\ Len(fl.trace) = 2
          /\ fl.trace[1].req.method = "POST"
          /\ fl.trace[1].req.path = ConnectionsPath
          /\ fl.trace[2].ev = "response"
          /\ fl.result = IF fl.trace[2].ok THEN fl.trace[2].body ELSE NullValue

C10_Witness ==
  \E f \in Flows :
    /\ Completed(flow[f], "addConnection")
    /\ flow[f].trace[2].ok
    /\ flow[f].result.kind = "object"
    /\ flow[f].result = flow[f].trace[2].body

\* how many requests of the method the operation has issued so far, counting
\* the apply requests (applyReq) or the others
Issued(fl, method, applyReq) ==
  Cardinality({i \in RequestsAt(fl) :
                 /\ fl.trace[i].req.method = method
                 /\ IsApply(fl.trace[i].req) = applyReq})

\* the requests one call of the operation issues: GETs, POSTs, PUTs of a
\* connection, DELETEs, and PUTs of /network/system/apply
RequestsOf(op) ==
  CASE op \in {"devices", "connections", "accessPoints", "settings", "getConnection"}
         -> [get |-> 1, post |-> 0, put |-> 0, delete |-> 0, apply |-> 0]
    [] op = "addConnection"
         -> [get |-> 0, post |-> 1, put |-> 0, delete |-> 0, apply |-> 0]
    [] op \in {"connectTo", "addAndConnectTo"}
         -> [get |-> 0, post |-> 1, put |-> 0, delete |-> 0, apply |-> 1]
    [] op = "updateConnection"
         -> [get |-> 0, post |-> 0, put |-> 1, delete |-> 0, apply |-> 1]
    [] op = "deleteConnection"
         -> [get |-> 0, post |-> 0, put |-> 0, delete |-> 1, apply |-> 1]
    [] op = "apply"
         -> [get |-> 0, post |-> 0, put |-> 0, delete |-> 0, apply |-> 1]
    [] OTHER
         -> [get |-> 0, post |-> 0, put |-> 0, delete |-> 0, apply |-> 0]

IssuedBy(fl) ==
  [get |-> Issued(fl, "GET", FALSE), post |-> Issued(fl, "POST", FALSE),
   put |-> Issued(fl, "PUT", FALSE), delete |-> Issued(fl, "DELETE", FALSE),
   apply |-> Issued(fl, "PUT", TRUE)]

\* C13: no operation retries: at every moment an operation has issued each of
\* its requests at most once (one GET for the reads and getConnection, one
\* POST for addConnection, one PUT or DELETE plus one apply for
\* updateConnection and deleteConnection, one PUT for apply), whatever the
\* answers were, and a completed operation has issued each exactly once.
C13_NoRetry ==
  \A f \in Flows :
    LET fl == flow[f]
        want == RequestsOf(fl.call.op)
        got == IssuedBy(fl)
    IN /\ \A k \in DOMAIN want : got[k] <= want[k]
       /\ fl.status = "done" => got = want

C13_Witness ==
  \E f \in Flows :
    /\ Completed(flow[f], "updateConnection")
    /\ Answered(flow[f], FALSE, FALSE)
    /\ Answered(flow[f], TRUE, FALSE)
    /\ IssuedBy(flow[f]) = RequestsOf("updateConnection")

\* the trace of a completed operation of two requests: the POST of a
\* connection, its response, then the apply and its response
PostThenApply(fl) ==
  /\ Len(fl.trace) = 4
  /\ fl.trace[1].ev = "request"
  /\ fl.trace[1].req.method = "POST"
  /\ fl.trace[1].req.path = ConnectionsPath
  /\ fl.trace[2].ev = "response"
  /\ fl.trace[2].req = fl.trace[1].req
  /\ fl.trace[3].ev = "request"
  /\ IsApply(fl.trace[3].req)
  /\ fl.trace[4].ev = "response"
  /\ IsApply(fl.trace[4].req)

\* C19: a completed connectTo has issued the apply request after the response
\* to its POST, also when the POST was answered not ok, and has resolved to
\* what the add step gave alone: the decoded body of the POST's response, or
\* null when the POST was answered not ok, whatever the answer to apply.
C19_ConnectToResult ==
  \A f \in Flows :
    Completed(flow[f], "connectTo")
    => /\ PostThenApply(flow[f])
       /\ flow[f].result =
            IF flow[f].trace[2].ok THEN flow[f].trace[2].body ELSE NullValue

C19_Witness ==
  \E f \in Flows :
    /\ Completed(flow[f], "connectTo")
    /\ PostThenApply(flow[f])
    /\ ~flow[f].trace[2].ok
    /\ flow[f].trace[4].ok
    /\ flow[f].result = NullValue

\* a connectTo whose POST was answered ok and whose apply was not
C19_WitnessApplyFailed ==
  \E f \in Flows :
    /\ Completed(flow[f], "connectTo")
    /\ PostThenApply(flow[f])
    /\ flow[f].trace[2].ok
    /\ ~flow[f].trace[4].ok
    /\ flow[f].result = flow[f].trace[2].body

\* the option k is set: given, and neither the empty string nor false
IsSet(options, k) ==
  /\ k \in DOMAIN options
  /\ IF k = "hidden" THEN options[k] ELSE options[k] # ""

\* C18: a completed addAndConnectTo(ssid, options) has done what connectTo does
\* for a wireless connection with id = ssid and wireless.ssid = ssid: it has
\* issued one POST of that connection and then one apply, the POSTed
\* wireless.mode is options.mode when set and "infrastructure" otherwise,
\* security, password and hidden are in it exactly when set in options and are
\* then the options' values, and the result is the decoded body of the POST's
\* response, or null when the POST was answered not ok.
C18_AddAndConnectToIsConnectTo ==
  \A f \in Flows :
    Completed(flow[f], "addAndConnectTo")
    => LET fl == flow[f]
           ssid == fl.call.ssid
           options == fl.call.options
           data == fl.trace[1].req.data
       IN /\ PostThenApply(fl)
          /\ data.id = ssid
          /\ "wireless" \in DOMAIN data
          /\ data.wireless.ssid = ssid
          /\ data.wireless.mode =
               IF IsSet(options, "mode") THEN options.mode ELSE "infrastructure"
          /\ \A k \in {"security", "password", "hidden"} :
               /\ k \in DOMAIN data.wireless <=> IsSet(options, k)
               /\ k \in DOMAIN data.wireless => data.wireless[k] = options[k]
          /\ fl.result = IF fl.trace[2].ok THEN fl.trace[2].body ELSE NullValue

C18_Witness ==
  \E f \in Flows :
    /\ Completed(flow[f], "addAndConnectTo")
    /\ PostThenApply(flow[f])
    /\ IsSet(flow[f].call.options, "mode")
    /\ "password" \in DOMAIN flow[f].call.options
    /\ ~IsSet(flow[f].call.options, "password")
    /\ flow[f].trace[1].req.data.wireless.mode = "ad-hoc"
    /\ "password" \notin DOMAIN flow[f].trace[1].req.data.wireless

\* the domain object the collection method op returns for the wire record
DomainOf(op, record) ==
  CASE op = "devices" -> fromApiDevice(record)
    [] op = "connections" -> fromApiConnection(record)
    [] op = "accessPoints" ->
         [ssid |-> record.ssid, hwAddress |-> record.hw_address,
          strength |-> record.strength,
          security |-> securityFromFlags(record.flags, record.wpa_flags,
                                         record.rsn_flags)]

\* C17: a completed devices(), connections() or accessPoints() whose GET was
\* answered ok has resolved to a list with one domain object per wire record,
\* the i-th of the i-th record, so in the backend's order and with nothing
\* merged or dropped; an access point carries the securityFromFlags of the
\* three flag words of its own record.
C17_ListPreserved ==
  \A f \in Flows :
    ( /\ flow[f].status = "done"
      /\ flow[f].call.op \in {"devices", "connections", "accessPoints"}
      /\ flow[f].trace[2].ok )
    => LET wire == flow[f].trace[2].body.list
           result == flow[f].result
       IN /\ result.kind = "list"
          /\ Len(result.list) = Len(wire)
          /\ \A i \in 1..Len(wire) :
               result.list[i] = DomainOf(flow[f].call.op, wire[i])

\* two wire access points of the same ssid have given two access points
C17_Witness ==
  \E f \in Flows :
    /\ Completed(flow[f], "accessPoints")
    /\ flow[f].trace[2].ok
    /\ LET wire == flow[f].trace[2].body.list
       IN /\ Len(wire) = 2
          /\ wire[1].ssid = wire[2].ssid
          /\ wire[1] # wire[2]
          /\ Len(flow[f].result.list) = 2
          /\ flow[f].result.list[1].ssid = flow[f].result.list[2].ssid
          /\ flow[f].result.list[1].security # flow[f].result.list[2].security

---------------------------------------------------------------------------
(* The specification of the translations: fromApiConnection and            *)
(* toApiConnection after it, and fromApiDevice, applied to wire records    *)

\* longest addresses list of a wire connection
MaxAddresses == 2

Mask24 == <<"255", ".", "255", ".", "255", ".", "0">>
Mask18 == <<"255", ".", "255", ".", "192", ".", "0">>
MaskHoled == <<"255", ".", "0", ".", "255", ".", "0">>
MaskLate == <<"0", ".", "255", ".", "0", ".", "0">>

\* wire addresses: without prefix, with an integer prefix (one of them
\* written with a leading zero), with a dotted netmask, contiguous or not
WireAddresses ==
  { <<"10.0.0.0">>,
    <<"10.0.0.0", "/", "24">>,
    <<"10.0.0.0", "/", "024">>,
    <<"fe80::1", "/", "64">>,
    <<"10.0.0.0", "/">> \o Mask24,
    <<"10.0.0.0", "/">> \o Mask18,
    <<"10.0.0.0", "/">> \o MaskHoled,
    <<"10.0.0.0", "/">> \o MaskLate }

TranslatedConnections ==
  { [id |-> "eth0", iface |-> "eth0", addresses |-> as] :
      as \in ListsUpTo(WireAddresses, MaxAddresses) }

WireRoutes4 ==
  { [destination |-> <<"0.0.0.0", "/", "0">>, nextHop |-> "192.168.1.1", metric |-> 100],
    [destination |-> <<"10.0.0.0", "/">> \o Mask24, table |-> 254],
    [destination |-> <<"10.0.0.0", "/">> \o MaskHoled, nextHop |-> "192.168.1.1"] }

WireRoutes6 ==
  { [destination |-> <<"fe80::">>, nextHop |-> "::"],
    [destination |-> <<"2001:db8::", "/", "32">>, metric |-> 10, table |-> 254] }

TranslatedDevices ==
  { [name |-> "eth0", type |-> DeviceType.ETHERNET,
     ipConfig |-> [method4 |-> "auto", addresses |-> as, routes4 |-> r4, routes6 |-> r6]] :
      as \in ListsUpTo({<<"10.0.0.0", "/", "24">>, <<"10.0.0.0", "/">> \o MaskHoled}, 1),
      r4 \in ListsUpTo(WireRoutes4, MaxList),
      r6 \in ListsUpTo(WireRoutes6, MaxList) }

InitTranslate ==
  /\ flow = [f \in Flows |-> OffFlow]
  /\ pure \in {[fn |-> "connection", wire |-> w, step |-> "wire"] :
                 w \in TranslatedConnections}
              \cup {[fn |-> "device", wire |-> d, step |-> "wire"] :
                      d \in TranslatedDevices}
  /\ backend = NoBackend
  /\ networkClient = NewNetworkClient
  /\ component = NoComponent

\* fromApiConnection on the wire connection
FromApiConnection ==
  /\ pure.fn = "connection"
  /\ pure.step = "wire"
  /\ pure' = [fn |-> "connection", wire |-> pure.wire, step |-> "domain",
              domain |-> fromApiConnection(pure.wire)]
  /\ UNCHANGED <<flow, backend, networkClient, component>>

\* toApiConnection on the connection fromApiConnection gave
ToApiConnection ==
  /\ pure.fn = "connection"
  /\ pure.step = "domain"
  /\ pure.domain # Thrown
  /\ pure' = [fn |-> "connection", wire |-> pure.wire, step |-> "back",
              domain |-> pure.domain, back |-> toApiConnection(pure.domain)]
  /\ UNCHANGED <<flow, backend, networkClient, component>>

\* fromApiDevice on the wire device
FromApiDevice ==
  /\ pure.fn = "device"
  /\ pure.step = "wire"
  /\ pure' = [fn |-> "device", wire |-> pure.wire, step |-> "domain",
              domain |-> fromApiDevice(pure.wire)]
  /\ UNCHANGED <<flow, backend, networkClient, component>>

NextTranslate == FromApiConnection \/ ToApiConnection \/ FromApiDevice

SpecTranslate == InitTranslate /\ [][NextTranslate]_vars


\* bit k of an octet, bit 1 the highest
Bit(o, k) == (o \div Pow2(8 - k)) % 2

\* the 32 bits of a dotted netmask
MaskBits(m) ==
  [i \in 1..32 |-> Bit(DecimalValue[m[2 * ((i - 1) \div 8) + 1]], ((i - 1) % 8) + 1)]

\* the part after "/" is a dotted netmask with a one-bit below a zero-bit
HasHoledMask(s) ==
  /\ Len(Split(s)) >= 2
  /\ LET m == Split(s)[2]
     IN /\ Len(m) = 7
        /\ \A i \in 1..4 : m[2 * i - 1] \in DOMAIN DecimalValue
        /\ \E i, j \in 1..32 : i < j /\ MaskBits(m)[i] = 0 /\ MaskBits(m)[j] = 1

AnyHoled(xs) == \E i \in 1..Len(xs) : HasHoledMask(xs[i])

Destinations(routes) == [i \in 1..Len(routes) |-> routes[i].destination]

\* C14: a wire address or route destination whose part after "/" is a
\* non-contiguous dotted netmask makes fromApiConnection and fromApiDevice
\* fail, so that no domain object comes out; and where the translation
\* succeeds, "10.0.0.0/255.255.255.0" and "10.0.0.0/24" both get prefix 24
C14_MalformedFails ==
  /\ (pure.fn = "connection" /\ pure.step # "wire") =>
       /\ AnyHoled(pure.wire.addresses) => pure.domain = Thrown
       /\ pure.domain # Thrown =>
            \A i \in 1..Len(pure.wire.addresses) :
              pure.wire.addresses[i] \in {<<"10.0.0.0", "/", "24">>,
                                          <<"10.0.0.0", "/">> \o Mask24}
                => pure.domain.addresses[i] = [address |-> <<"10.0.0.0">>, prefix |-> 24]
  /\ (/\ pure.fn = "device"
      /\ pure.step # "wire"
      /\ \/ AnyHoled(pure.wire.ipConfig.addresses)
         \/ AnyHoled(Destinations(pure.wire.ipConfig.routes4))
         \/ AnyHoled(Destinations(pure.wire.ipConfig.routes6)))
       => pure.domain = Thrown

\* fromApiConnection failed on 255.0.255.0 next to an address it could take
C14_Witness ==
  /\ pure.fn = "connection"
  /\ pure.step = "domain"
  /\ pure.wire.addresses = <<<<"10.0.0.0", "/", "24">>, <<"10.0.0.0", "/">> \o MaskHoled>>
  /\ pure.domain = Thrown

\* an address without prefix, or with an integer prefix in decimal notation
\* without leading zero
WellFormedAddress(s) ==
  \/ Len(s) = 1
  \/ /\ Len(s) = 3
     /\ s[2] = "/"
     /\ s[3] \in (DOMAIN DecimalValue) \ LeadingZero

\* C15: for a wire connection w whose addresses are all well-formed,
\* toApiConnection(fromApiConnection(w)).addresses equals w.addresses; an
\* address without "/" becomes a record without prefix and comes back
\* without "/"
C15_AddressRoundTrip ==
  (/\ pure.fn = "connection"
   /\ pure.step = "back"
   /\ \A i \in 1..Len(pure.wire.addresses) : WellFormedAddress(pure.wire.addresses[i]))
    => /\ pure.back.addresses = pure.wire.addresses
       /\ \A i \in 1..Len(pure.wire.addresses) :
            Len(pure.wire.addresses[i]) = 1 =>
              /\ DOMAIN pure.domain.addresses[i] = {"address"}
              /\ \A j \in 1..Len(pure.back.addresses[i]) : pure.back.addresses[i][j] # "/"

\* an address with prefix and one without went to the domain and back
C15_Witness ==
  /\ pure.fn = "connection"
  /\ pure.step = "back"
  /\ pure.wire.addresses = <<<<"10.0.0.0", "/", "24">>, <<"10.0.0.0">>>>
  /\ pure.back.addresses = pure.wire.addresses

\* C15, the other notations: a prefix written with a leading zero or as a
\* contiguous dotted netmask comes back as the decimal prefix
C15_OtherNotationsNormalised ==
  (/\ pure.fn = "connection"
   /\ pure.step = "back")
    => \A i \in 1..Len(pure.wire.addresses) :
         pure.wire.addresses[i] \in {<<"10.0.0.0", "/", "024">>, <<"10.0.0.0", "/">> \o Mask24}
           => pure.back.addresses[i] = <<"10.0.0.0", "/", "24">>

\* one list of wire routes against its translation: same length and order,
\* every record with the same fields, all but destination with the same value
RoutesKept(wire, domain) ==
  /\ Len(domain) = Len(wire)
  /\ \A i \in 1..Len(wire) :
       /\ DOMAIN domain[i] = DOMAIN wire[i]
       /\ \A k \in (DOMAIN wire[i]) \ {"destination"} : domain[i][k] = wire[i][k]
       /\ domain[i].destination.address = Split(wire[i].destination)[1]

\* C16: where fromApiDevice succeeds, routes4 and routes6 keep their length
\* and order and every field but destination of every record; a routes6
\* destination without "/" becomes a destination with the address alone
C16_RouteDecomposition ==
  (/\ pure.fn = "device"
   /\ pure.step = "domain"
   /\ pure.domain # Thrown)
    => /\ RoutesKept(pure.wire.ipConfig.routes4, pure.domain.routes4)
       /\ RoutesKept(pure.wire.ipConfig.routes6, pure.domain.routes6)
       /\ \A i \in 1..Len(pure.wire.ipConfig.routes6) :
            Len(Split(pure.wire.ipConfig.routes6[i].destination)) = 1
              => DOMAIN pure.domain.routes6[i].destination = {"address"}

\* two routes of each family were translated, one with a field the client
\* does not know and one routes6 destination without "/"
C16_Witness ==
  /\ pure.fn = "device"
  /\ pure.step = "domain"
  /\ pure.domain # Thrown
  /\ Len(pure.wire.ipConfig.routes4) = 2
  /\ \E i \in 1..2 : "table" \in DOMAIN pure.wire.ipConfig.routes4[i]
  /\ Len(pure.wire.ipConfig.routes6) = 2
  /\ pure.wire.ipConfig.routes6[1].destination = <<"fe80::">>
  /\ "table" \in DOMAIN pure.domain.routes6[2]


---------------------------------------------------------------------------
(* The specification of PasswordAndConfirmationInput: one mounted          *)
(* component whose parent sets value to what onChange reports              *)

\* longest text typed into a field
MaxPassword == 2

\* a JavaScript string, as a value that can stand next to undefined
Text(s) == [kind |-> "string", chars |-> s]

\* the texts a field can hold
Typed == {Text(s) : s \in ListsUpTo({"a", "b"}, MaxPassword)}

\* _("Passwords do not match")
PasswordsDoNotMatch == "Passwords do not match"

\* value || ""
OrEmpty(value) == IF value \in {Undefined, Text(<<>>)} THEN Text(<<>>) ELSE value

\* validate(password, passwordConfirmation): setError(newError), and
\* onValidation(newError === "") when the parent passed a function;
\* validation holds the argument of the most recent onValidation call
validate(c, password, passwordConfirmation) ==
  LET newError == IF password # passwordConfirmation THEN PasswordsDoNotMatch ELSE ""
  IN [c EXCEPT !.error = newError,
               !.validation = IF c.onValidation THEN <<newError = "">> ELSE @,
               !.touched = TRUE]

\* the component after its first render, no event handled yet: the parent
\* passes a text as value or no value, and passes onValidation or not
InitPasswordInput ==
  /\ flow = [f \in Flows |-> OffFlow]
  /\ pure = NoPure
  /\ backend = NoBackend
  /\ networkClient = NewNetworkClient
  /\ component \in {[mounted |-> TRUE, value |-> v, onValidation |-> given,
                     confirmation |-> OrEmpty(v), error |-> "",
                     validation |-> <<>>, touched |-> FALSE] :
                      v \in Typed \cup {Undefined}, given \in BOOLEAN}

\* the password field changes: validate(value, confirmation), then
\* onChange(value, event), on which the parent renders with the new value
onChangeValue ==
  /\ component.mounted
  /\ \E value \in Typed :
       component' = [validate(component, value, component.confirmation)
                       EXCEPT !.value = value]
  /\ UNCHANGED <<flow, pure, backend, networkClient>>

\* the confirmation field changes
onChangeConfirmation ==
  /\ component.mounted
  /\ \E confirmationValue \in Typed :
       component' = validate([component EXCEPT !.confirmation = confirmationValue],
                             component.value, confirmationValue)
  /\ UNCHANGED <<flow, pure, backend, networkClient>>

\* either field loses the focus
onBlur ==
  /\ component.mounted
  /\ component' = validate(component, component.value, component.confirmation)
  /\ UNCHANGED <<flow, pure, backend, networkClient>>

NextPasswordInput == onChangeValue \/ onChangeConfirmation \/ onBlur

SpecPasswordInput == InitPasswordInput /\ [][NextPasswordInput]_vars

\* the text the password field shows for a value
Shown(value) == OrEmpty(value)

\* the error is set exactly when the two differ, and the last onValidation
\* call, if any, got true exactly when they are equal
ErrorFollows(password, confirmation) ==
  /\ component.error # "" <=> password # confirmation
  /\ component.validation # <<>> => (component.validation[1] <=> password = confirmation)

\* C20: before any event the confirmation is the given value and the error
\* is empty; after any sequence of password changes, confirmation changes
\* and blurs the error is non-empty exactly when the password differs from
\* the confirmation, and the most recent onValidation call received true
\* exactly when they are equal
C20_ErrorIffMismatch ==
  component.mounted =>
    /\ ~component.touched =>
         /\ component.confirmation = Shown(component.value)
         /\ component.error = ""
    /\ component.touched => ErrorFollows(Shown(component.value), component.confirmation)

\* C20 for a parent that passes a text as value: there the property holds
C20_ErrorIffMismatchOfTexts ==
  (component.mounted /\ component.value # Undefined) =>
    /\ ~component.touched =>
         /\ component.confirmation = component.value
         /\ component.error = ""
    /\ component.touched => ErrorFollows(component.value, component.confirmation)

\* C20 with the password compared as validate compares it (undefined is
\* not ""): the first render already breaks it
C20_ErrorIffStrictMismatch ==
  component.mounted =>
    /\ ~component.touched =>
         /\ component.confirmation = component.value
         /\ component.error = ""
    /\ component.touched => ErrorFollows(component.value, component.confirmation)

\* no value was given and nothing was typed: after a blur the error is set
\* and onValidation got false
C20_BlurOnEmptyFields ==
  /\ component.mounted
  /\ component.value = Undefined
  /\ component.confirmation = Text(<<>>)
  /\ component.touched
  /\ component.error = PasswordsDoNotMatch
  /\ component.validation = <<FALSE>>


---------------------------------------------------------------------------
(* The specification of two concurrent callers of one NetworkClient, each  *)
(* running one operation, against a backend that stages the writes to the  *)
(* connections and commits the staged change-set on apply                  *)

\* the connections in effect before the callers start
EffectiveAtStart == [eth0 |-> WireEth0, Home |-> WireWifi]

\* nothing staged
NothingStaged == [id \in {} |-> Null]

\* lastWrite and lastApply are the flow whose write (PUT or DELETE of a
\* connection) was staged last and the flow whose apply was processed last,
\* 0 when there is none
StagingBackend ==
  [staging |-> TRUE, staged |-> NothingStaged, effective |-> EffectiveAtStart,
   lastWrite |-> 0, lastApply |-> 0]

\* the id a request to /network/connections/:id names
IdOf(req) == req.path[Len(req.path)]

\* the staged change-set over the configuration in effect: a staged delete
\* removes the connection, a staged PUT replaces or adds it
Commit(effective, staged) ==
  LET deleted == {id \in DOMAIN staged : "deleted" \in DOMAIN staged[id]}
      kept == ((DOMAIN effective) \cup (DOMAIN staged)) \ deleted
  IN [id \in kept |-> IF id \in DOMAIN staged THEN staged[id].put ELSE effective[id]]

\* the backend after it accepted the request of flow f
Accept(b, f, req) ==
  IF IsApply(req)
    THEN [b EXCEPT !.effective = Commit(b.effective, b.staged),
                   !.staged = NothingStaged,
                   !.lastApply = f]
  ELSE IF req.method = "PUT"
    THEN [b EXCEPT !.staged = Spread(@, [id \in {IdOf(req)} |-> [put |-> req.data]]),
                   !.lastWrite = f]
  ELSE IF req.method = "DELETE"
    THEN [b EXCEPT !.staged = Spread(@, [id \in {IdOf(req)} |-> [deleted |-> TRUE]]),
                   !.lastWrite = f]
  ELSE b

\* the backend after it refused the request of flow f: nothing changes but
\* that an apply of f was the last one processed
Refuse(b, f, req) == IF IsApply(req) THEN [b EXCEPT !.lastApply = f] ELSE b

InitConcurrent ==
  /\ flow = [f \in Flows |-> IdleFlow]
  /\ pure = NoPure
  /\ backend = StagingBackend
  /\ networkClient = NewNetworkClient
  /\ component = NoComponent

\* the backend processes one request of the flow and the transport hands
\* the answer to the flow
BackendRespond(f) ==
  /\ backend.staging
  /\ flow[f].status = "running"
  /\ ~flow[f].ret.has
  /\ \E req \in flow[f].inflight :
       \E response \in Responses(req) :
         /\ flow' = [flow EXCEPT ![f] =
                       [@ EXCEPT !.inflight = @ \ {req},
                                 !.ret = [has |-> TRUE, val |-> response],
                                 !.trace = Append(@, [ev |-> "response", req |-> req,
                                                      ok |-> response.ok,
                                                      body |-> response.body])]]
         /\ backend' = IF response.ok THEN Accept(backend, f, req)
                       ELSE Refuse(backend, f, req)
  /\ UNCHANGED <<pure, networkClient, component>>

NextConcurrent ==
  \E f \in Flows :
    \/ settings(f)
    \/ updateConnection(f)
    \/ deleteConnection(f)
    \/ BackendRespond(f)
    \/ settings_afterGet(f)
    \/ apply_afterPut(f)
    \/ updateConnection_afterPut(f)
    \/ updateConnection_afterApply(f)
    \/ deleteConnection_afterDelete(f)
    \/ deleteConnection_afterApply(f)

SpecConcurrent == InitConcurrent /\ [][NextConcurrent]_vars


\* every request of the flow's operation was answered ok
AllOk(fl) ==
  \A i \in 1..Len(fl.trace) : fl.trace[i].ev = "response" => fl.trace[i].ok

\* both flows have completed an updateConnection of eth0 and the backend
\* accepted every request of theirs
BothUpdated ==
  \A f \in Flows :
    /\ flow[f].status = "done"
    /\ flow[f].call.op = "updateConnection"
    /\ flow[f].call.connection.id = "eth0"
    /\ AllOk(flow[f])

\* what the flow's updateConnection wrote
WrittenBy(f) == toApiConnection(flow[f].call.connection)

LastResponse(fl) == fl.trace[Len(fl.trace)]

\* what the operation resolves to, from the flow's own responses alone
OwnResult(fl) ==
  IF fl.call.op \in {"updateConnection", "deleteConnection"}
  THEN Bool(LastResponse(fl).ok)
  ELSE IF LastResponse(fl).ok THEN LastResponse(fl).body ELSE Object(EmptyObject)

\* C12: with two operations running concurrently on one NetworkClient, each
\* completed operation has issued its own requests only, its result is the
\* one its own responses give (for updateConnection and deleteConnection
\* the ok of its own apply response), and the client object still holds
\* just the HTTP client it was constructed with
C12_FlowsIndependent ==
  backend.staging =>
    /\ networkClient = NewNetworkClient
    /\ \A f \in Flows :
         flow[f].status = "done" =>
           /\ IssuedBy(flow[f]) = RequestsOf(flow[f].call.op)
           /\ LastResponse(flow[f]).ev = "response"
           /\ flow[f].call.op \in {"updateConnection", "deleteConnection"}
                => IsApply(LastResponse(flow[f]).req)
           /\ flow[f].result = OwnResult(flow[f])

\* two updateConnection calls overlapped (PUT of 1, PUT of 2, apply of 2,
\* apply of 1) and resolved differently, each to its own apply's ok
C12_Witness ==
  /\ backend.staging
  /\ \A f \in Flows : flow[f].status = "done" /\ flow[f].call.op = "updateConnection"
  /\ flow[1].trace[2].ok
  /\ backend.lastWrite = 2
  /\ backend.lastApply = 1
  /\ flow[1].result = Bool(FALSE)
  /\ flow[2].result = Bool(TRUE)


=============================================================================
